---- MODULE Spec2Model ----
(***************************************************************************)
(* commit-gen: collect the working-tree changes, ask a text-generation     *)
(* provider for a commit message, ask the operator to confirm, then stage  *)
(* and commit.  The repository holds three variants of the same script:    *)
(*   "single"  src/index.js                 command g          (Groq)      *)
(*   "triple"  src/unnamed/part_000:1-245   commands gr ge ds  (with hint) *)
(*   "double"  src/unnamed/part_000:247-414 commands gr ge                 *)
(* Text is modelled as a sequence of one-character strings, so that        *)
(* split, join, trim, case folding, the fence regex and the shell's        *)
(* reading of the commit command are computed, not assumed.                *)
(***************************************************************************)
EXTENDS Integers, Sequences, FiniteSets, TLC

(* ------------------------------ bounds --------------------------------- *)

\* Longest provider response drawn from the response alphabet.
MaxLen == 2

\* Number of untracked paths the working tree may hold.
MaxFiles == 2

(* --------------------------- text primitives --------------------------- *)

NL == "\n"
DQ == "\""
\* The backquote character, U+0060, named because a string cannot hold it.
BT == "BACKQUOTE"

\* JavaScript whitespace, as far as the modelled alphabet goes.
IsSpace(c) == c \in {" ", NL}

RECURSIVE Join(_, _)
\* Array.prototype.join
Join(ts, sep) ==
  IF ts = <<>> THEN <<>>
  ELSE IF Len(ts) = 1 THEN ts[1]
  ELSE ts[1] \o sep \o Join(Tail(ts), sep)

RECURSIVE SplitFrom(_, _, _)
SplitFrom(t, sep, cur) ==
  IF t = <<>> THEN <<cur>>
  ELSE IF Head(t) = sep THEN <<cur>> \o SplitFrom(Tail(t), sep, <<>>)
  ELSE SplitFrom(Tail(t), sep, Append(cur, Head(t)))

\* String.prototype.split on a one-character separator: "" gives [""].
Split(t, sep) == SplitFrom(t, sep, <<>>)

RECURSIVE TrimStart(_)
TrimStart(t) ==
  IF t # <<>> /\ IsSpace(Head(t)) THEN TrimStart(Tail(t)) ELSE t

RECURSIVE TrimEnd(_)
TrimEnd(t) ==
  IF t # <<>> /\ IsSpace(t[Len(t)]) THEN TrimEnd(SubSeq(t, 1, Len(t) - 1)) ELSE t

\* String.prototype.trim
Trim(t) == TrimEnd(TrimStart(t))

LowerChar(c) ==
  CASE c = "Y" -> "y"
    [] c = "N" -> "n"
    [] c = "E" -> "e"
    [] c = "S" -> "s"
    [] OTHER -> c

\* String.prototype.toLowerCase
ToLowerCase(t) == [i \in 1..Len(t) |-> LowerChar(t[i])]

\* All texts over alphabet cs of length at most n.
TextsUpTo(cs, n) == UNION {[1..k -> cs] : k \in 0..n}

(* ------------------------ provider responses --------------------------- *)

IsFenceAt(t, i) ==
  i + 2 <= Len(t) /\ t[i] = BT /\ t[i + 1] = BT /\ t[i + 2] = BT

RECURSIVE NextFence(_, _)
\* Position of the first fence at or after j, 0 when there is none.
NextFence(t, j) ==
  IF j + 2 > Len(t) THEN 0
  ELSE IF IsFenceAt(t, j) THEN j
  ELSE NextFence(t, j + 1)

RECURSIVE RemoveBlocksFrom(_, _)
RemoveBlocksFrom(t, i) ==
  IF i > Len(t) THEN <<>>
  ELSE IF IsFenceAt(t, i) /\ NextFence(t, i + 3) # 0
       THEN RemoveBlocksFrom(t, NextFence(t, i + 3) + 3)
  ELSE <<t[i]>> \o RemoveBlocksFrom(t, i + 1)

\* message.replace(/```[\s\S]*?```/g, ""): every shortest fence-to-fence
\* stretch is deleted, fences and the text between them.
RemoveCodeBlocks(t) == RemoveBlocksFrom(t, 1)

\* choices[0]?.message?.content || ""
ContentOrEmpty(resp) == IF resp.hasContent THEN resp.content ELSE <<>>

\* What generateCommitMessage returns for the model's response.
NormalizeResponse(model, resp) ==
  CASE model = "groq" -> ContentOrEmpty(resp)
    [] model = "deepseek" -> Trim(RemoveCodeBlocks(ContentOrEmpty(resp)))
    [] OTHER -> resp.content

(* ------------------------- the commit command -------------------------- *)

GitCommitPrefix == <<"g", "i", "t", " ", "c", "o", "m", "m", "i", "t", " ">>
DashM == <<"-", "m">>

\* (line) => `-m "${line}"`
MessageFlag(line) == DashM \o <<" ", DQ>> \o line \o <<DQ>>

\* `git commit ${commitLines.map(...).join(" ")}` with
\* commitLines = commitMessage.split("\n")
CommitCommand(commitMessage) ==
  LET commitLines == Split(commitMessage, NL)
  IN GitCommitPrefix
       \o Join([i \in 1..Len(commitLines) |-> MessageFlag(commitLines[i])], <<" ">>)

RECURSIVE ShellScan(_, _, _, _, _)
\* /bin/sh reading a command line made of plain characters, blanks and
\* double quotes: a quote opens or closes a quoted stretch and is removed,
\* a blank outside quotes ends the word, a quote left open is a syntax error.
ShellScan(t, inq, has, cur, words) ==
  IF t = <<>>
  THEN IF inq THEN [ok |-> FALSE, words |-> <<>>]
       ELSE [ok |-> TRUE, words |-> IF has THEN Append(words, cur) ELSE words]
  ELSE IF Head(t) = DQ THEN ShellScan(Tail(t), ~inq, TRUE, cur, words)
  ELSE IF Head(t) = " " /\ ~inq
       THEN ShellScan(Tail(t), FALSE, FALSE, <<>>,
                      IF has THEN Append(words, cur) ELSE words)
  ELSE ShellScan(Tail(t), inq, TRUE, Append(cur, Head(t)), words)

\* The argument vector execSync(command) hands to git.
ShellWords(command) == ShellScan(command, FALSE, FALSE, <<>>, <<>>)

\* A backquote starts a command substitution: what the shell then does
\* depends on the commands the machine has.
HasSubstitution(command) == \E i \in 1..Len(command) : command[i] = BT

RECURSIVE MessageValues(_)
\* The values of the -m options of "git commit", in order.
MessageValues(args) ==
  IF Len(args) < 2 THEN <<>>
  ELSE <<args[2]>> \o MessageValues(SubSeq(args, 3, Len(args)))

\* All arguments after "git commit" are -m <value> pairs.
OnlyMessageFlags(args) ==
  /\ Len(args) % 2 = 0
  /\ \A i \in 1..Len(args) : i % 2 = 1 => args[i] = DashM

RECURSIVE MessageBuffer(_, _)
\* git commit -m: each value is appended as a paragraph of its own, a
\* newline between the buffer and the value, the value ended by a newline.
MessageBuffer(values, buf) ==
  IF values = <<>> THEN buf
  ELSE LET sep == IF buf = <<>> THEN <<>> ELSE <<NL>>
           withValue == buf \o sep \o Head(values)
           done == IF withValue # <<>> /\ withValue[Len(withValue)] = NL
                   THEN withValue ELSE Append(withValue, NL)
       IN MessageBuffer(Tail(values), done)

RECURSIVE DropLeadingBlank(_)
DropLeadingBlank(ls) ==
  IF ls # <<>> /\ Head(ls) = <<>> THEN DropLeadingBlank(Tail(ls)) ELSE ls

RECURSIVE DropTrailingBlank(_)
DropTrailingBlank(ls) ==
  IF ls # <<>> /\ ls[Len(ls)] = <<>>
  THEN DropTrailingBlank(SubSeq(ls, 1, Len(ls) - 1)) ELSE ls

RECURSIVE CollapseBlank(_)
CollapseBlank(ls) ==
  IF Len(ls) < 2 THEN ls
  ELSE IF ls[1] = <<>> /\ ls[2] = <<>> THEN CollapseBlank(Tail(ls))
  ELSE <<ls[1]>> \o CollapseBlank(Tail(ls))

\* git's default clean-up of a message given with -m: trailing blanks of
\* each line go, runs of empty lines become one, empty lines at both ends go.
CleanupLines(buf) ==
  LET ls == Split(buf, NL)
      rs == [i \in 1..Len(ls) |-> TrimEnd(ls[i])]
  IN CollapseBlank(DropTrailingBlank(DropLeadingBlank(rs)))

\* The lines of the message git stores for the given -m values.
StoredLines(values) == CleanupLines(MessageBuffer(values, <<>>))

\* What running the commit command makes of it: "syntax" (the shell rejects
\* the line), "unknown" (a substitution or stray arguments decide), "empty"
\* (git aborts on an empty message) or "message" with the lines to store.
CommandReading(command) ==
  LET sh == ShellWords(command)
      args == SubSeq(sh.words, 3, Len(sh.words))
      lines == StoredLines(MessageValues(args))
  IN IF HasSubstitution(command) THEN [kind |-> "unknown", lines |-> <<>>]
     ELSE IF ~sh.ok THEN [kind |-> "syntax", lines |-> <<>>]
     ELSE IF ~OnlyMessageFlags(args) THEN [kind |-> "unknown", lines |-> <<>>]
     ELSE IF lines = <<>> THEN [kind |-> "empty", lines |-> <<>>]
     ELSE [kind |-> "message", lines |-> lines]

(* ------------------------------ inputs --------------------------------- *)

\* Characters a provider response is drawn from.
ResponseChars == {"a", NL, DQ}

Fence == <<BT, BT, BT>>

\* "```\nfeat: add x\n```"
FencedSample ==
  Fence \o <<NL, "f", "e", "a", "t", ":", " ", "a", "d", "d", " ", "x", NL>> \o Fence

\* "feat: add x"
FeatSample == <<"f", "e", "a", "t", ":", " ", "a", "d", "d", " ", "x">>

\* "fix: correct off-by-one"
FixSample ==
  <<"f", "i", "x", ":", " ", "c", "o", "r", "r", "e", "c", "t", " ",
    "o", "f", "f", "-", "b", "y", "-", "o", "n", "e">>

\* A subject, a blank line and a body line.
BodySample == <<"a", NL, NL, "a", "a">>

\* Two lines with no blank line between them.
TwoLineSample == <<"a", NL, "b">>

\* One line with a quoted word in it.
QuotedSample == <<"a", " ", DQ, "b", DQ>>

ResponseTexts ==
  TextsUpTo(ResponseChars, MaxLen) \cup {FencedSample, FixSample, BodySample, TwoLineSample, QuotedSample}

\* A chat completion either carries choices[0].message.content or lacks it.
ChatResponses ==
  {[hasContent |-> TRUE, content |-> t] : t \in ResponseTexts}
    \cup {[hasContent |-> FALSE, content |-> <<>>]}

\* result.response.text() always gives a string.
TextResponses == {[hasContent |-> TRUE, content |-> t] : t \in ResponseTexts}

\* Lines the operator may type at the confirmation question.
Answers ==
  {<<>>, <<"y">>, <<"Y">>, <<"n">>, <<" ", "y", " ">>, <<"y", "e", "s">>}

\* Lines the operator may type at the hint question.
HintLines == {<<>>, <<" ">>, <<"h">>}

\* The tracked diff: nothing, or the diff of one modified file.
Diffs == {<<>>, <<"d">>}

PathChars == <<"f", "g", "h", "k">>
PathIds == 1..MaxFiles
PathName(p) == <<PathChars[p]>>
FileContent(p) == <<"c">>

\* status.not_added: the untracked paths, in the path order git reports.
FileLists ==
  {fl \in UNION {[1..k -> PathIds] : k \in 0..MaxFiles} :
     \A i, j \in 1..Len(fl) : i < j => fl[i] < fl[j]}

(* ----------------------------- the program ----------------------------- *)

Variants == {"single", "double", "triple"}

Commands(v) ==
  CASE v = "single" -> {"g"}
    [] v = "double" -> {"gr", "ge"}
    [] OTHER -> {"gr", "ge", "ds"}

Keys == {"GROQ_API_KEY", "GOOGLE_API_KEY", "DEEPSEEK_API_KEY"}

\* Variation: only the Groq credential is checked.
RequiredKeysGroqOnly(v) == {"GROQ_API_KEY"}

\* The credentials the start-up check of each script insists on.
RequiredKeys(v) ==
  CASE v = "single" -> {"GROQ_API_KEY"}
    [] v = "double" -> {"GROQ_API_KEY", "GOOGLE_API_KEY"}
    [] OTHER -> {"GROQ_API_KEY", "GOOGLE_API_KEY", "DEEPSEEK_API_KEY"}

\* Variation: the name handed over for "ds" matches no branch of
\* generateCommitMessage, which then falls through to its last one.
ModelOfFallThrough(v, c) ==
  CASE c = "g" -> "groq"
    [] c = "gr" -> "groq"
    [] OTHER -> "gemini"

\* The provider a command generates with.
ModelOf(v, c) ==
  CASE c = "g" -> "groq"
    [] c = "gr" -> "groq"
    [] c = "ds" -> "deepseek"
    [] OTHER -> "gemini"

\* Variation: every script asks for a hint.
AsksHintAlways(v) == TRUE

\* Only the three-provider script asks for a hint.
AsksHint(v) == v = "triple"

NewFilePrefix == <<"N", "e", "w", " ", "f", "i", "l", "e", ":", " ">>

\* "(Content not available)"
NotAvailable ==
  <<"(", "C", "o", "n", "t", "e", "n", "t", " ", "n", "o", "t", " ",
    "a", "v", "a", "i", "l", "a", "b", "l", "e", ")">>

\* `New file: ${file}\n${content}`
NewFileEntry(p) == NewFilePrefix \o PathName(p) \o <<NL>> \o FileContent(p)

\* Variation: the placeholder loses its label.
PlaceholderEntryBare(p) == NotAvailable

\* `New file: ${file}\n(Content not available)`
PlaceholderEntry(p) == NewFilePrefix \o PathName(p) \o <<NL>> \o NotAvailable

\* diff + "\n" + newFiles.join("\n")
FullDiff(d, entries) == d \o <<NL>> \o Join(entries, <<NL>>)

\* if (!fullDiff): a JavaScript string is falsy only when it is "".
IsFalsy(t) == t = <<>>

\* Variation: any answer that starts with "y" counts.
IsAffirmativeLoose(ans) == ans # <<>> /\ ToLowerCase(ans)[1] = "y"

\* Variation: the answer is compared without case folding.
IsAffirmativeExact(ans) == ans = <<"y">>

\* Variation: the answer is trimmed before it is compared.
IsAffirmativeTrimmed(ans) == Trim(ToLowerCase(ans)) = <<"y">>

\* answer.toLowerCase() === "y"
IsAffirmative(ans) == ToLowerCase(ans) = <<"y">>

NoResponse == [hasContent |-> FALSE, content |-> <<>>]
NoCommit == [state |-> "none", lines |-> <<>>]
NotRun == [add |-> "none", commit |-> "none"]
NoRequest == [system |-> <<>>, user |-> <<>>]

(* ----------------------------- the request ----------------------------- *)
\* The fixed phrases of the prompts are kept as one symbol each.

\* "Consider this user's description when generating the commit message: "
GuidanceLead ==
  <<"Consider this user's description when generating the commit message: ">>

\* "Generate a concise commit message for the following git changes: "
GenerateLead ==
  <<"Generate a concise commit message for the following git changes: ">>

\* The Conventional Commits directive of the three-provider script.
RoleText == <<"You are a helpful assistant ... (100 characters, no code fences)">>

\* The Conventional Commits directive of the other two scripts.
SystemText == <<"You are a helpful assistant ... (wrapped at 72 characters)">>

\* The format rules the two-provider script appends for Gemini.
FormatRules == <<"The commit message should have the following format: ...">>

\* Variation: the hint instruction is built without testing the hint.
UserGuidanceUnconditional(hint) == GuidanceLead \o hint \o <<NL, NL>>

\* userMessage ? `Consider this user's description ...: ${userMessage}\n\n` : ""
UserGuidance(hint) ==
  IF hint # <<>> THEN GuidanceLead \o hint \o <<NL, NL>> ELSE <<>>

\* The messages generateCommitMessage sends, by script and model.
RequestOf(v, model, blob, hint) ==
  CASE v = "triple" /\ model \in {"groq", "deepseek"} ->
         [system |-> RoleText,
          user |-> UserGuidance(hint) \o GenerateLead \o blob]
    [] v = "triple" /\ model = "gemini" ->
         [system |-> <<>>,
          user |-> UserGuidance(hint) \o RoleText
                     \o <<NL, NL, " ", " ", " ", " ">> \o GenerateLead \o blob]
    [] v # "triple" /\ model = "gemini" ->
         [system |-> <<>>,
          user |-> GenerateLead \o blob \o <<NL>> \o FormatRules]
    [] OTHER ->
         [system |-> SystemText, user |-> GenerateLead \o blob]

VARIABLES
  variant,        \* which of the three scripts runs
  command,        \* the sub-command given on the command line
  env,            \* the credentials present in the environment
  pc,             \* where the invocation stands
  exitCode,       \* -1 while running, then the process's exit status
  diff,           \* git.diff()
  notAdded,       \* status.not_added, as path ids
  pending,        \* indexes of notAdded whose read has not settled
  newFiles,       \* the settled entries, by index
  readFailed,     \* the paths whose read threw
  warnings,       \* paths warned about, in the order of the warnings
  fullDiff,       \* the serialized change blob
  userMessage,    \* the trimmed hint
  response,       \* the provider's response
  providerError,  \* "none", or why the provider call threw
  commitMessage,  \* the generated message
  answer,         \* the line typed at the confirmation question
  rl,             \* the readline interfaces that are open
  history,        \* external calls and reports, in order
  commitCommand,  \* the command line given to execSync
  stored,         \* what the commit stored
  gitStatus,      \* how "git add ." and the commit command ended
  request         \* what was sent to the provider

vars ==
  <<variant, command, env, pc, exitCode, diff, notAdded, pending, newFiles,
    readFailed, warnings, fullDiff, userMessage, response, providerError, commitMessage,
    answer, rl, history, commitCommand, stored, gitStatus, request>>

collectVars ==
  <<diff, notAdded, pending, newFiles, readFailed, warnings, fullDiff>>
resultVars == <<response, providerError, commitMessage>>
commitVars == <<answer, commitCommand, stored, gitStatus>>
fixedVars == <<variant, command, env>>

Init ==
  /\ variant \in Variants
  /\ command \in Commands(variant)
  /\ env \in SUBSET Keys
  /\ pc = "start"
  /\ exitCode = -1
  /\ diff = <<>>
  /\ notAdded = <<>>
  /\ pending = {}
  /\ newFiles = <<>>
  /\ readFailed = {}
  /\ warnings = <<>>
  /\ fullDiff = <<>>
  /\ userMessage = <<>>
  /\ response = NoResponse
  /\ providerError = "none"
  /\ commitMessage = <<>>
  /\ answer = <<>>
  /\ rl = {}
  /\ history = <<>>
  /\ commitCommand = <<>>
  /\ stored = NoCommit
  /\ gitStatus = NotRun
  /\ request = NoRequest

\* The credential check at load time; program.parse then runs the command.
Startup ==
  /\ pc = "start"
  /\ IF RequiredKeys(variant) \subseteq env
     THEN /\ pc' = "collect"
          /\ UNCHANGED <<exitCode, history>>
     ELSE /\ pc' = "exited"
          /\ exitCode' = 1
          /\ history' = Append(history, "log missing key")
  /\ UNCHANGED <<fixedVars, collectVars, userMessage, request, resultVars, commitVars, rl>>

\* git.status() and git.diff() resolve; one read per untracked file starts.
BeginCollect ==
  /\ pc = "collect"
  /\ \E d \in Diffs, fl \in FileLists :
       /\ diff' = d
       /\ notAdded' = fl
       /\ pending' = 1..Len(fl)
       /\ newFiles' = [i \in 1..Len(fl) |-> <<>>]
  /\ pc' = "reading"
  /\ UNCHANGED <<fixedVars, exitCode, readFailed, warnings, fullDiff, userMessage, request,
                 resultVars, commitVars, rl, history>>

\* git.status() or git.diff() rejects: the outermost catch reports it.
CollectFails ==
  /\ pc = "collect"
  /\ pc' = "done"
  /\ exitCode' = 0
  /\ history' = Append(history, "log generation error")
  /\ UNCHANGED <<fixedVars, collectVars, userMessage, request, resultVars, commitVars, rl>>

\* Variation: the entries are collected in the order the reads settle.
ReadFileByCompletion(i) ==
  /\ pc = "reading"
  /\ i \in pending
  /\ pending' = pending \ {i}
  /\ LET slot == Len(notAdded) - Cardinality(pending) + 1
     IN \E readable \in BOOLEAN :
          IF readable
          THEN /\ newFiles' = [newFiles EXCEPT ![slot] = NewFileEntry(notAdded[i])]
               /\ UNCHANGED <<readFailed, warnings>>
          ELSE /\ newFiles' = [newFiles EXCEPT ![slot] = PlaceholderEntry(notAdded[i])]
               /\ readFailed' = readFailed \cup {notAdded[i]}
               /\ warnings' = Append(warnings, notAdded[i])
  /\ UNCHANGED <<fixedVars, pc, exitCode, diff, notAdded, fullDiff, userMessage,
                 request, resultVars, commitVars, rl, history>>

\* The read of the i-th untracked file settles, with its content or not.
ReadFile(i) ==
  /\ pc = "reading"
  /\ i \in pending
  /\ pending' = pending \ {i}
  /\ \E readable \in BOOLEAN :
       IF readable
       THEN /\ newFiles' = [newFiles EXCEPT ![i] = NewFileEntry(notAdded[i])]
            /\ UNCHANGED <<readFailed, warnings>>
       ELSE /\ newFiles' = [newFiles EXCEPT ![i] = PlaceholderEntry(notAdded[i])]
            /\ readFailed' = readFailed \cup {notAdded[i]}
            /\ warnings' = Append(warnings, notAdded[i])
  /\ UNCHANGED <<fixedVars, pc, exitCode, diff, notAdded, fullDiff, userMessage, request,
                 resultVars, commitVars, rl, history>>

\* The provider call of generateCommitMessage, as a history entry.
CallEvent(v, c) == "call " \o ModelOf(v, c)

\* Promise.all has settled: the blob is put together and tested, and the run
\* goes on to its next wait (the hint question or the provider call).
Assemble ==
  /\ pc = "reading"
  /\ pending = {}
  /\ fullDiff' = FullDiff(diff, newFiles)
  /\ IF IsFalsy(fullDiff')
     THEN /\ pc' = "done"
          /\ exitCode' = 0
          /\ history' = Append(history, "log no changes")
          /\ UNCHANGED <<rl, request>>
     ELSE IF AsksHint(variant)
     THEN /\ pc' = "awaitHint"
          /\ rl' = rl \cup {"hint"}
          /\ history' = Append(history, "prompt hint")
          /\ UNCHANGED <<exitCode, request>>
     ELSE /\ pc' = "awaitProvider"
          /\ history' = Append(history, CallEvent(variant, command))
          /\ request' = RequestOf(variant, ModelOf(variant, command), fullDiff', <<>>)
          /\ UNCHANGED <<exitCode, rl>>
  /\ UNCHANGED <<fixedVars, diff, notAdded, pending, newFiles, readFailed, warnings,
                 userMessage, resultVars, commitVars>>

\* Variation: the hint interface is not closed before the call goes out.
HintLineLeavesOpen ==
  /\ pc = "awaitHint"
  /\ \E line \in HintLines : userMessage' = Trim(line)
  /\ pc' = "awaitProvider"
  /\ history' = Append(history, CallEvent(variant, command))
  /\ request' = RequestOf(variant, ModelOf(variant, command), fullDiff, userMessage')
  /\ UNCHANGED <<fixedVars, exitCode, collectVars, resultVars, commitVars, rl>>

\* The operator answers the hint question: the interface is closed and the
\* provider call goes out.
HintLine ==
  /\ pc = "awaitHint"
  /\ \E line \in HintLines : userMessage' = Trim(line)
  /\ rl' = rl \ {"hint"}
  /\ pc' = "awaitProvider"
  /\ history' = Append(history, CallEvent(variant, command))
  /\ request' = RequestOf(variant, ModelOf(variant, command), fullDiff, userMessage')
  /\ UNCHANGED <<fixedVars, exitCode, collectVars, resultVars, commitVars>>

\* The responses a provider's client can hand back.
ResponsesOf(model) == IF model = "gemini" THEN TextResponses ELSE ChatResponses

\* The provider answers: the message is shown and the confirmation asked.
ProviderReturns ==
  /\ pc = "awaitProvider"
  /\ \E r \in ResponsesOf(ModelOf(variant, command)) :
       /\ response' = r
       /\ commitMessage' = NormalizeResponse(ModelOf(variant, command), r)
  /\ rl' = rl \cup {"confirm"}
  /\ pc' = "awaitConfirm"
  /\ history' = history \o <<"log generated", "prompt confirm">>
  /\ UNCHANGED <<fixedVars, exitCode, collectVars, userMessage, request, providerError,
                 commitVars>>

\* Variation: the failure is swallowed and the run goes on to ask for
\* confirmation of an empty message.
ProviderFailsThenAsks ==
  /\ pc = "awaitProvider"
  /\ \E why \in {"network", "rejected", "malformed"} : providerError' = why
  /\ rl' = rl \cup {"confirm"}
  /\ pc' = "awaitConfirm"
  /\ history' = history \o <<"log generation error", "prompt confirm">>
  /\ UNCHANGED <<fixedVars, exitCode, collectVars, userMessage, request, response,
                 commitMessage, commitVars>>

\* The provider call throws: the outermost catch reports it.
ProviderFails ==
  /\ pc = "awaitProvider"
  /\ \E why \in {"network", "rejected", "malformed"} : providerError' = why
  /\ pc' = "done"
  /\ exitCode' = 0
  /\ history' = Append(history, "log generation error")
  /\ UNCHANGED <<fixedVars, collectVars, userMessage, request, response, commitMessage,
                 commitVars, rl>>

\* Variation: success is reported whatever the commit command did.
CommitOutcomeAlwaysSuccess(reading, commitOk) == <<"git commit", "log success">>

\* The history after "git add ." succeeded and the commit command ran.
CommitOutcome(reading, commitOk) ==
  IF reading.kind \in {"message", "unknown"} /\ commitOk
  THEN <<"git commit", "log success">>
  ELSE <<"git commit", "log commit error">>

\* What the repository holds after the commit command ran.
StoredAfter(reading, commitOk) ==
  IF reading.kind = "message" /\ commitOk
  THEN [state |-> "lines", lines |-> reading.lines]
  ELSE IF reading.kind = "unknown" /\ commitOk
  THEN [state |-> "unknown", lines |-> <<>>]
  ELSE NoCommit

\* Whether the commit command ran and exited with status 0.
CommitSucceeds(reading, commitOk) ==
  reading.kind \in {"message", "unknown"} /\ commitOk

\* Variation: a failure of "git add ." does not keep the commit from running.
ReachesCommitAlways(addOk) == TRUE

\* execSync("git add .") throwing leaves the try block before the commit.
ReachesCommit(addOk) == addOk

\* Variation: rl.close() ends the try block instead of sitting in a finally.
OpenAfterConfirmNoFinally(ans, addOk) ==
  IF IsAffirmative(ans) /\ ~addOk THEN rl ELSE rl \ {"confirm"}

\* finally { rl.close() }: the interfaces open once commitWithMessage ends.
OpenAfterConfirm(ans, addOk) == rl \ {"confirm"}

\* The operator answers the confirmation question; on "y" everything is
\* staged and the commit command runs; the interface is closed in any case.
AnswerConfirmation ==
  /\ pc = "awaitConfirm"
  /\ \E ans \in Answers, addOk \in BOOLEAN, commitOk \in BOOLEAN :
       /\ answer' = ans
       /\ rl' = OpenAfterConfirm(ans, addOk)
       /\ IF IsAffirmative(ans)
          THEN IF ReachesCommit(addOk)
               THEN LET cmd == CommitCommand(commitMessage)
                        reading == CommandReading(cmd)
                    IN /\ commitCommand' = cmd
                       /\ stored' = StoredAfter(reading, commitOk)
                       /\ gitStatus' =
                            [add |-> IF addOk THEN "ok" ELSE "failed",
                             commit |-> IF CommitSucceeds(reading, commitOk)
                                        THEN "ok" ELSE "failed"]
                       /\ history' = history \o <<"git add">>
                                       \o CommitOutcome(reading, commitOk)
               ELSE /\ history' = history \o <<"git add", "log error">>
                    /\ gitStatus' = [add |-> "failed", commit |-> "none"]
                    /\ UNCHANGED <<commitCommand, stored>>
          ELSE /\ history' = Append(history, "log cancelled")
               /\ UNCHANGED <<commitCommand, stored, gitStatus>>
  /\ pc' = "done"
  /\ exitCode' = 0
  /\ UNCHANGED <<fixedVars, collectVars, userMessage, request, resultVars>>

\* Standard input ends while a question waits: readline closes the
\* interface, the question's callback never runs, and the process ends
\* when nothing is left to wait for.
InputClosed ==
  /\ pc \in {"awaitHint", "awaitConfirm"}
  /\ rl' = {}
  /\ pc' = "hung"
  /\ exitCode' = 0
  /\ UNCHANGED <<fixedVars, collectVars, userMessage, request, resultVars, commitVars,
                 history>>

Next ==
  \/ Startup
  \/ BeginCollect
  \/ CollectFails
  \/ \E i \in 1..MaxFiles : ReadFile(i)
  \/ Assemble
  \/ HintLine
  \/ ProviderReturns
  \/ ProviderFails
  \/ AnswerConfirmation
  \/ InputClosed

Spec == Init /\ [][Next]_vars

(* ------------------------- reading the history ------------------------- *)

Has(ev) == \E i \in 1..Len(history) : history[i] = ev

Count(ev) == Cardinality({i \in 1..Len(history) : history[i] = ev})

CallEvents == {"call groq", "call gemini", "call deepseek"}

IsCallEvent(ev) == ev \in CallEvents

CallsMade == SelectSeq(history, IsCallEvent)

LastEvent == history[Len(history)]

\* The blob was put together and tested.
Assembled ==
  /\ history # <<>>
  /\ history[1] \in CallEvents \cup {"log no changes", "prompt hint"}

\* The confirmation question was asked and answered.
Answered == pc = "done" /\ Has("prompt confirm")

NoRepositoryChange ==
  ~Has("git add") /\ ~Has("git commit") /\ stored = NoCommit

\* The -m values git is started with by the commit command.
ReceivedValues ==
  LET words == ShellWords(commitCommand).words
  IN MessageValues(SubSeq(words, 3, Len(words)))

(* ------------------------------- claims -------------------------------- *)

\* C1: with an empty tracked diff and no untracked files the run issues no
\* provider call, shows no confirmation question, stages and commits
\* nothing, and ends normally having reported "No changes detected".
C1_EmptyChangesStop ==
  (Assembled /\ diff = <<>> /\ notAdded = <<>> /\ Trim(fullDiff) = <<>>)
    => /\ CallsMade = <<>>
       /\ ~Has("prompt confirm")
       /\ NoRepositoryChange
       /\ pc \in {"done", "hung"} => (Has("log no changes") /\ exitCode = 0)

\* C2: a negative answer to the confirmation question leads to no staging
\* call and no commit call; the run reports the cancellation and ends with
\* exit status 0.
C2_DeclineLeavesRepository ==
  (Answered /\ answer \notin {<<"y">>, <<"Y">>})
    => /\ NoRepositoryChange
       /\ LastEvent = "log cancelled"
       /\ exitCode = 0

C2_Witness ==
  Answered /\ answer = <<"n">> /\ LastEvent = "log cancelled"

IsPipelineCall(ev) ==
  ev \in CallEvents \cup {"prompt confirm", "git add", "git commit"}

\* C4: one modified file, no hint, a one-line message M from the provider
\* and the answer "y", with staging and commit succeeding: the calls are
\* provider, confirmation question, stage-all, commit, in that order, git is
\* given exactly M as the message, and the run reports success.
C4_SuccessPathCommitsMessage ==
  (/\ pc = "done"
   /\ diff = <<"d">> /\ notAdded = <<>> /\ userMessage = <<>>
   /\ response.hasContent
   /\ \A i \in 1..Len(response.content) : response.content[i] # NL
   /\ answer = <<"y">>
   /\ Has("log success"))
    => /\ SelectSeq(history, IsPipelineCall)
            = <<"call " \o ModelOf(variant, command), "prompt confirm",
                "git add", "git commit">>
       /\ LastEvent = "log success"
       /\ stored.state = "lines"
       /\ ReceivedValues = <<response.content>>

\* The provider each command stands for.
ProviderOfCommand(c) ==
  CASE c \in {"g", "gr"} -> "call groq"
    [] c = "ge" -> "call gemini"
    [] c = "ds" -> "call deepseek"

\* C5: a run never makes more than one generation call, a call goes to the
\* provider the command selects, and a run that reached the dispatcher has
\* made exactly one.
C5_OneCallToSelectedProvider ==
  /\ Len(CallsMade) <= 1
  /\ \A i \in 1..Len(CallsMade) : CallsMade[i] = ProviderOfCommand(command)
  /\ (pc \in {"awaitProvider", "awaitConfirm"}
        \/ Has("log generated") \/ providerError # "none")
       => Len(CallsMade) = 1

C5_Witness ==
  /\ pc = "done"
  /\ command = "ds"
  /\ CallsMade = <<"call deepseek">>
  /\ Has("log success")

\* C6: the message a commit stores has, line for line, the lines of the
\* generated message.
C6_StoredLinesRoundTrip ==
  stored.state = "lines" => stored.lines = Split(commitMessage, NL)

\* C7: the decision is affirmative exactly when the answer, case folded,
\* is "y"; the confirmation question is asked at most once.
C7_DecisionIsCaseFoldedY ==
  /\ Count("prompt confirm") <= 1
  /\ Answered => (Has("git add") <=> ToLowerCase(answer) = <<"y">>)
  /\ Answered => (Has("log cancelled") <=> ToLowerCase(answer) # <<"y">>)

C7_Witness ==
  Answered /\ answer = <<"Y">> /\ Has("git add")

\* C8 as written: the answers "Y", " y ", "yes", "n" and "" all give a
\* negative decision, so nothing is staged or committed.
C8_ListedAnswersDecline ==
  (Answered
     /\ answer \in {<<"Y">>, <<" ", "y", " ">>, <<"y", "e", "s">>, <<"n">>, <<>>})
    => (~Has("git add") /\ ~Has("git commit"))

\* C8 amended: the decision depends on the lower-cased answer alone, which
\* is not trimmed: "Y" is affirmative and staging follows, while " y ",
\* "yes", "n" and "" are negative and nothing is staged or committed.
C8_UntrimmedCaseFoldedDecision ==
  /\ (Answered /\ answer = <<"Y">>) => Has("git add")
  /\ (Answered /\ answer \in {<<" ", "y", " ">>, <<"y", "e", "s">>, <<"n">>, <<>>})
       => (NoRepositoryChange /\ LastEvent = "log cancelled")

C8_Witness ==
  Answered /\ answer = <<" ", "y", " ">> /\ LastEvent = "log cancelled"

\* C9: from the provider whose responses the code cleans of fences, a
\* response that is a fence line, "feat: add x" and a closing fence is
\* normalized to "feat: add x".
C9_FenceWrapperStripped ==
  (/\ Has("log generated")
   /\ ModelOf(variant, command) = "deepseek"
   /\ response.hasContent /\ response.content = FencedSample)
    => commitMessage = FeatSample

\* The entry the blob must hold for the i-th untracked file.
ExpectedEntry(i) ==
  IF notAdded[i] \in readFailed
  THEN NewFilePrefix \o PathName(notAdded[i]) \o <<NL>> \o NotAvailable
  ELSE NewFilePrefix \o PathName(notAdded[i]) \o <<NL>> \o FileContent(notAdded[i])

\* C10: a failed read leaves exactly the placeholder entry for its file
\* and one warning, the other entries are what their reads gave, and the
\* run goes on past collection with the blob holding all of them.
C10_UnreadableFilePlaceholder ==
  /\ \A i \in 1..Len(notAdded) : i \notin pending => newFiles[i] = ExpectedEntry(i)
  /\ {warnings[k] : k \in 1..Len(warnings)} = readFailed
  /\ Len(warnings) = Cardinality(readFailed)
  /\ (readFailed # {} /\ pc \notin {"reading"})
       => /\ Assembled
          /\ history[1] \in CallEvents \cup {"prompt hint"}
          /\ fullDiff = diff \o <<NL>>
               \o Join([i \in 1..Len(notAdded) |-> ExpectedEntry(i)], <<NL>>)

C10_Witness ==
  /\ Len(notAdded) = 2
  /\ Cardinality(readFailed) = 1
  /\ pc = "awaitConfirm"

\* The run is over: the handler finished, the process ended waiting for a
\* line that never came, or start-up refused to run.
Terminated == pc \in {"done", "hung", "exited"}

\* C11: every interface opened during a run is closed when the run is over,
\* whichever way it ended: commit, decline, staging or commit failure, or
\* the input ending while a question waits.
C11_InterfacesReleased ==
  Terminated => rl = {}

C11_Witness ==
  /\ pc = "done"
  /\ Has("prompt hint") /\ Has("prompt confirm")
  /\ gitStatus.add = "failed"
  /\ rl = {}

\* Interfaces created in the run: each question is asked on one of its own.
InterfacesOpened == Count("prompt hint") + Count("prompt confirm")

\* C12 as written: a run opens the input stream at most once, for at most
\* one question, in every script.
C12_OpenedOnce == InterfacesOpened <= 1

\* C12 amended: the scripts without a hint open one interface for one
\* question; the script with the hint opens at most two, one for the hint
\* and then one for the confirmation, each used for one question.
C12_OneInterfacePerQuestion ==
  /\ Count("prompt hint") <= 1
  /\ Count("prompt confirm") <= 1
  /\ variant # "triple" => Count("prompt hint") = 0
  /\ InterfacesOpened <= (IF variant = "triple" THEN 2 ELSE 1)
  /\ Has("prompt confirm") =>
       \A i, j \in 1..Len(history) :
         (history[i] = "prompt hint" /\ history[j] = "prompt confirm") => i < j

C12_Witness ==
  /\ variant = "triple"
  /\ pc = "done"
  /\ InterfacesOpened = 2

\* The credential of the provider a command generates with.
OwnKey(c) ==
  CASE c \in {"g", "gr"} -> "GROQ_API_KEY"
    [] c = "ge" -> "GOOGLE_API_KEY"
    [] c = "ds" -> "DEEPSEEK_API_KEY"

\* The credentials each script tests when it loads.
CheckedKeys ==
  CASE variant = "single" -> {"GROQ_API_KEY"}
    [] variant = "double" -> {"GROQ_API_KEY", "GOOGLE_API_KEY"}
    [] variant = "triple" -> {"GROQ_API_KEY", "GOOGLE_API_KEY", "DEEPSEEK_API_KEY"}

\* C13 as written: the exit status is non-zero exactly when the credential
\* of the invoked command's own provider is missing.
C13_ExitOnOwnCredential ==
  pc # "start" => (exitCode = 1 <=> OwnKey(command) \notin env)

\* C13 amended: the exit status is non-zero, before any other work, exactly
\* when one of the credentials the script tests at start-up is missing,
\* whichever command was invoked; every other ending gives status 0.
C13_ExitOnAnyCheckedCredential ==
  /\ pc # "start" => (exitCode = 1 <=> ~(CheckedKeys \subseteq env))
  /\ exitCode = 1 =>
       /\ pc = "exited"
       /\ history = <<"log missing key">>
       /\ NoRepositoryChange
       /\ fullDiff = <<>>
  /\ pc \in {"done", "hung"} => exitCode = 0

C13_Witness ==
  /\ variant = "triple"
  /\ command = "gr"
  /\ "GROQ_API_KEY" \in env
  /\ pc = "exited"
  /\ exitCode = 1

\* C14: after an affirmative answer a failure of the staging command or of
\* the commit command is logged as an error; the run ends normally, with
\* neither the success nor the cancellation report.
C14_GitFailureReported ==
  (gitStatus.add = "failed" \/ gitStatus.commit = "failed")
    => /\ pc = "done"
       /\ exitCode = 0
       /\ LastEvent \in {"log error", "log commit error"}
       /\ ~Has("log success")
       /\ ~Has("log cancelled")
       /\ ~Has("log generation error")
       /\ stored = NoCommit

C14_Witness ==
  /\ gitStatus.add = "ok"
  /\ gitStatus.commit = "failed"
  /\ LastEvent = "log commit error"

\* C15: when the input ends while a question waits, the run ends with the
\* error logged, the interface released and nothing staged or committed.
C15_InputClosureReported ==
  pc = "hung"
    => /\ Has("log error") \/ Has("log generation error")
       /\ rl = {}
       /\ NoRepositoryChange

\* The label and path every entry of the i-th untracked file starts with.
EntryHead(i) == NewFilePrefix \o PathName(notAdded[i]) \o <<NL>>

\* C16: whatever order the reads settle in, the blob is put together only
\* when all have settled and holds one entry per file, in the order of the
\* enumeration.
C16_EnumerationOrder ==
  /\ Len(newFiles) = Len(notAdded)
  /\ \A i \in 1..Len(notAdded) :
       i \notin pending =>
         /\ Len(newFiles[i]) >= Len(EntryHead(i))
         /\ SubSeq(newFiles[i], 1, Len(EntryHead(i))) = EntryHead(i)
  /\ fullDiff # <<>> =>
       /\ pending = {}
       /\ fullDiff = diff \o <<NL>> \o Join(newFiles, <<NL>>)

C16_Witness ==
  /\ notAdded = <<1, 2>>
  /\ warnings = <<2, 1>>
  /\ fullDiff # <<>>

\* t holds sub from position k on.
OccursAt(t, sub, k) ==
  /\ k >= 1
  /\ k + Len(sub) - 1 <= Len(t)
  /\ SubSeq(t, k, k + Len(sub) - 1) = sub

Mentions(t, symbol) == \E i \in 1..Len(t) : t[i] = symbol

\* C17: a hint, when there is one, opens the request as an instruction and
\* the blob comes after it; without a hint the request holds no such
\* instruction; the blob is in the request whole.
C17_HintBeforeWholeBlob ==
  CallsMade # <<>>
    => /\ \E k \in 1..Len(request.user) : OccursAt(request.user, fullDiff, k)
       /\ userMessage # <<>> =>
            /\ OccursAt(request.user, GuidanceLead \o userMessage, 1)
            /\ \E k \in 1..Len(request.user) :
                 /\ k > Len(GuidanceLead \o userMessage)
                 /\ OccursAt(request.user, fullDiff, k)
       /\ userMessage = <<>> =>
            /\ ~Mentions(request.user, GuidanceLead[1])
            /\ ~Mentions(request.system, GuidanceLead[1])

C17_Witness ==
  /\ variant = "triple"
  /\ command = "ge"
  /\ userMessage = <<"h">>
  /\ pc = "awaitProvider"
  /\ notAdded # <<>>

\* C18: when the generated message is empty the run stops: nothing is
\* staged and no commit is run, whatever the answer.
C18_EmptyMessageStops ==
  (Has("log generated") /\ commitMessage = <<>>)
    => (~Has("git add") /\ ~Has("git commit"))

\* C19: the commit command runs only after "git add ." of the same run
\* ended well; when staging fails no commit command is run.
C19_CommitOnlyAfterStaging ==
  /\ Has("git commit") =>
       /\ gitStatus.add = "ok"
       /\ \E i, j \in 1..Len(history) :
            i < j /\ history[i] = "git add" /\ history[j] = "git commit"
  /\ gitStatus.add = "failed" =>
       /\ ~Has("git commit")
       /\ gitStatus.commit = "none"
       /\ commitCommand = <<>>
       /\ stored = NoCommit

C19_Witness ==
  /\ pc = "done"
  /\ gitStatus.add = "failed"
  /\ LastEvent = "log error"

\* C20: never two interfaces open at once; the hint interface is closed
\* when the provider call goes out and when the confirmation interface is
\* made, and none is open while the call is pending.
C20_OneInterfaceAtATime ==
  /\ Cardinality(rl) <= 1
  /\ pc = "awaitProvider" => rl = {}
  /\ CallsMade # <<>> => "hint" \notin rl
  /\ pc = "awaitHint" => rl = {"hint"}
  /\ pc = "awaitConfirm" => rl = {"confirm"}

C20_Witness ==
  /\ variant = "triple"
  /\ pc = "awaitProvider"
  /\ Has("prompt hint")
  /\ rl = {}

====
